---- MODULE Spec2Model ----
(***************************************************************************)
(* Model of crypto-analysis-portfolio/src/data_collection.py:              *)
(* CryptoDataCollector (get_historical_data, get_multiple_cryptos,         *)
(* save_data, get_current_prices) and main().                              *)
(*                                                                         *)
(* Floating point values are modelled symbolically (IEEE-754 cases NaN,    *)
(* +inf, -inf, exact fractions and ln of an exact fraction), so that the   *)
(* derived columns are computed the way numpy/pandas compute them.         *)
(* Timestamps of the source are day numbers (one per daily record); the    *)
(* wall clock counts seconds.  Disk failures are outside the model.        *)
(***************************************************************************)
EXTENDS Integers, Sequences, FiniteSets, TLC

\* ------------------------------------------------------------------ bounds
MaxAssets == 2      \* longest asset map handed to get_multiple_cryptos
MaxLen == 3         \* longest price array of a directly normalised response

\* ------------------------------------------------------- program constants
SleepSeconds == 1   \* time.sleep(1)
Lookback == 30      \* df['price'].iloc[-30]

Ids == {"bitcoin", "ethereum", "cardano"}
Symbols == {"BTC", "ETH"}
Prices == {-2, -1, 0, 1, 2}
NoSymbol == "-"
filename_prefix == "crypto_data"

\* ----------------------------------------------------------- float values
NaN == [k |-> "nan", n |-> 0, d |-> 1]
PosInf == [k |-> "inf", n |-> 1, d |-> 1]
NegInf == [k |-> "inf", n |-> -1, d |-> 1]

Abs(x) == IF x < 0 THEN -x ELSE x

RECURSIVE GCD(_, _)
GCD(a, b) == IF b = 0 THEN a ELSE GCD(b, a % b)

\* the exact rational a/b (b # 0), reduced, with a positive denominator
Frac(a, b) ==
    LET g == GCD(Abs(a), Abs(b))
        s == IF b < 0 THEN -1 ELSE 1
    IN  [k |-> "num", n |-> (s * a) \div g, d |-> (s * b) \div g]

Num(x) == Frac(x, 1)

\* x / y on float64 operands (numpy true division: no exception is raised)
Div(x, y) ==
    IF x.k = "nan" \/ y.k = "nan" THEN NaN
    ELSE IF x.k = "inf" /\ y.k = "inf" THEN NaN
    ELSE IF x.k = "inf" THEN [x EXCEPT !.n = IF y.n < 0 THEN -x.n ELSE x.n]
    ELSE IF y.k = "inf" THEN Num(0)
    ELSE IF y.n = 0
         THEN IF x.n = 0 THEN NaN ELSE IF x.n > 0 THEN PosInf ELSE NegInf
         ELSE Frac(x.n * y.d, x.d * y.n)

\* x - 1 on a float64 operand
MinusOne(x) ==
    IF x.k = "num" THEN Frac(x.n - x.d, x.d) ELSE x

\* np.log(x): NaN for a negative operand, -inf at zero, +inf at +inf
Log(x) ==
    IF x.k = "nan" THEN NaN
    ELSE IF x.k = "inf" THEN IF x.n > 0 THEN PosInf ELSE NaN
    ELSE IF x.n < 0 THEN NaN
    ELSE IF x.n = 0 THEN NegInf
    ELSE IF x.n = x.d THEN Num(0)
    ELSE [k |-> "ln", n |-> x.n, d |-> x.d]

IsMissing(x) == x.k = "nan"

\* a shift that repeats the first value in the first row instead of NaN
ShiftBackfill(col) == [i \in 1..Len(col) |-> IF i = 1 THEN col[1] ELSE col[i - 1]]

\* Series.shift(1): every value moves one row down, the first row is NaN
Shift(col) == [i \in 1..Len(col) |-> IF i = 1 THEN NaN ELSE col[i - 1]]

\* df['price'].pct_change(): price / price.shift(1) - 1
pct_change(col) ==
    LET prev == Shift(col)
    IN  [i \in 1..Len(col) |-> MinusOne(Div(col[i], prev[i]))]

\* the ratio taken the wrong way round: shift(1) / price
log_returns_swapped(col) ==
    LET prev == Shift(col)
    IN  [i \in 1..Len(col) |-> Log(Div(prev[i], col[i]))]

\* np.log(df['price'] / df['price'].shift(1))
log_returns(col) ==
    LET prev == Shift(col)
    IN  [i \in 1..Len(col) |-> Log(Div(col[i], prev[i]))]

\* ------------------------------------------------------------- data frames
\* pd.DataFrame(): no columns, no rows
EmptyDataFrame == [columns |-> {}, rows |-> << >>]

\* DataFrame.empty: some axis has length zero
empty(df) == df.columns = {} \/ Len(df.rows) = 0

\* --------------------------------------------------- responses of the source
ChartKeys == {"prices", "market_caps", "total_volumes"}

\* a JSON array of n [timestamp, value] pairs; the value of day i is val[i]
Pairs(n, val) == [i \in 1..n |-> <<i, val[i]>>]

Filler(n) == [i \in 1..n |-> 10 * i]

\* the JSON object with the keys K: prices holds p, the other two arrays hold
\* nc and nv entries
ChartObject(K, p, nc, nv) ==
    [t |-> "object",
     v |-> [key \in K |->
              IF key = "prices" THEN Pairs(Len(p), p)
              ELSE IF key = "market_caps" THEN Pairs(nc, Filler(nc))
              ELSE Pairs(nv, Filler(nv))]]

JsonArray == [t |-> "array", v |-> << >>]

Response(net, status, json, data) ==
    [net |-> net, status |-> status, json |-> json, data |-> data]

\* session.get raises (Timeout, ConnectionError), raise_for_status raises
\* (HTTPError), or the body is not JSON
FailedResponses ==
    { Response("timeout", 0, FALSE, JsonArray),
      Response("connection_error", 0, FALSE, JsonArray),
      Response("ok", 429, TRUE, JsonArray),
      Response("ok", 500, FALSE, JsonArray),
      Response("ok", 200, FALSE, JsonArray) }

\* 2xx responses carrying JSON that is not the expected chart object
MalformedCharts(priceSeqs) ==
    { Response("ok", 200, TRUE, JsonArray) }
    \cup { Response("ok", 200, TRUE, ChartObject(K, p, Len(p), Len(p))) :
             K \in (SUBSET ChartKeys) \ {ChartKeys}, p \in priceSeqs }
    \cup { Response("ok", 200, TRUE,
                     ChartObject(ChartKeys, p, Len(p) + e[1], Len(p) + e[2])) :
             p \in priceSeqs, e \in {<<0, 1>>, <<1, 0>>, <<1, 1>>} }

ValidCharts(priceSeqs) ==
    { Response("ok", 200, TRUE, ChartObject(ChartKeys, p, Len(p), Len(p))) :
        p \in priceSeqs }

\* --------------------------------------------------- get_historical_data
\* requests.exceptions.RequestException and its subclasses (Timeout,
\* ConnectionError, HTTPError, and JSONDecodeError of requests >= 2.27)
RequestFailed(resp) ==
    \/ resp.net # "ok"
    \/ resp.status >= 400
    \/ ~resp.json

\* the data frame built from data['prices'], data['market_caps'] and
\* data['total_volumes'], indexed by date, with the two computed columns
BuildFrame(data) ==
    LET n == Len(data["prices"])
        price == [i \in 1..n |-> Num(data["prices"][i][2])]
        ret == pct_change(price)
        lret == log_returns(price)
    IN  [columns |-> {"price", "market_cap", "volume", "returns", "log_returns"},
         rows |-> [i \in 1..n |->
                     [date |-> data["prices"][i][1],
                      price |-> price[i],
                      market_cap |-> Num(data["market_caps"][i][2]),
                      volume |-> Num(data["total_volumes"][i][2]),
                      returns |-> ret[i],
                      log_returns |-> lret[i],
                      symbol |-> NoSymbol]]]

Outcome(exc, df) == [exc |-> exc, df |-> df]

\* the result of get_historical_data on a response: the data frame returned,
\* or the exception that leaves the method
get_historical_data(resp) ==
    IF RequestFailed(resp) THEN Outcome("None", EmptyDataFrame)
    ELSE IF resp.data.t # "object" THEN Outcome("TypeError", EmptyDataFrame)
    ELSE IF \E key \in ChartKeys : key \notin DOMAIN resp.data.v
         THEN Outcome("KeyError", EmptyDataFrame)
    ELSE IF \/ Len(resp.data.v["market_caps"]) # Len(resp.data.v["prices"])
            \/ Len(resp.data.v["total_volumes"]) # Len(resp.data.v["prices"])
         THEN Outcome("ValueError", EmptyDataFrame)
    ELSE Outcome("None", BuildFrame(resp.data.v))

\* ---------------------------------------------------- get_current_prices
QuoteColumns == {"usd", "usd_market_cap", "usd_24h_vol", "usd_24h_change"}

\* ','.join(crypto_ids): the identifiers with a comma between neighbours
Join(ids) ==
    [i \in 1..(IF Len(ids) = 0 THEN 0 ELSE 2 * Len(ids) - 1) |->
        IF i % 2 = 1 THEN ids[(i + 1) \div 2] ELSE ","]

\* a JSON object as the sequence of its members <<key, value>>; a value is a
\* nested quote object or a scalar
Members(keys, kind) == [t |-> "object", v |-> [i \in 1..Len(keys) |-> <<keys[i], kind>>]]

SnapshotResponses(ids) ==
    FailedResponses
    \cup { Response("ok", 200, TRUE, Members(ids, "quote")),
           Response("ok", 200, TRUE, Members(SubSeq(ids, 1, Len(ids) - 1), "quote")),
           Response("ok", 200, TRUE, Members(<< >>, "quote")),
           Response("ok", 200, TRUE, Members(<<"error">>, "scalar")),
           Response("ok", 200, TRUE, [t |-> "array", v |-> << >>]),
           Response("ok", 200, TRUE,
                    [t |-> "array", v |-> << <<"error", "scalar">> >>]) }

\* pd.DataFrame.from_dict(data, orient='index'), then the index is named
\* crypto_id and made a column by reset_index
QuoteTable(members) ==
    [columns |-> {"crypto_id"} \cup
                 (IF Len(members) = 0 THEN {}
                  ELSE IF members[1][2] = "quote" THEN QuoteColumns ELSE {"0"}),
     rows |-> [i \in 1..Len(members) |->
                 [crypto_id |-> members[i][1], value |-> members[i][2]]]]

\* the result of get_current_prices on a response: from_dict reads
\* data.values() of a non-empty payload, which a JSON array does not have
get_current_prices(resp) ==
    IF RequestFailed(resp) THEN Outcome("None", EmptyDataFrame)
    ELSE IF resp.data.t # "object"
         THEN IF Len(resp.data.v) > 0
              THEN Outcome("AttributeError", EmptyDataFrame)
              ELSE Outcome("None", QuoteTable(<< >>))
    ELSE Outcome("None", QuoteTable(resp.data.v))

\* ------------------------------------------------------------------ state
VARIABLES
    crypto_dict,   \* the asset map: a sequence of <<crypto_id, symbol>>
    pc,            \* where main() stands
    idx,           \* position of the loop of get_multiple_cryptos
    results,       \* the dict built by get_multiple_cryptos, in insertion order
    trace,         \* outbound GETs and sleeps, in order
    now,           \* the wall clock, in seconds
    timestamp,     \* the timestamp of the running save_data call
    files,         \* the files written, in order
    exc,           \* the exception that left main(), "None" while there is none
    notice,        \* the nothing-collected notice was printed
    hist,          \* a direct get_historical_data call: response and outcome
    quotes         \* a direct get_current_prices call: response and outcome

vars == <<crypto_dict, pc, idx, results, trace, now, timestamp, files, exc,
          notice, hist, quotes>>

NoResponse == Response("none", 0, FALSE, JsonArray)
Call(resp, out) == [resp |-> resp, exc |-> out.exc, df |-> out.df]
NotCalled == Call(NoResponse, Outcome("NotCalled", EmptyDataFrame))
NoTimestamp == [fmt |-> "-", sec |-> 0]

\* asset maps: dict keys are distinct, the symbols need not be
RECURSIVE SeqsUpTo(_, _)
SeqsUpTo(S, n) ==
    IF n = 0 THEN {<< >>}
    ELSE LET shorter == SeqsUpTo(S, n - 1)
         IN  shorter \cup { Append(q, x) : q \in shorter, x \in S }

AssetMaps ==
    { m \in SeqsUpTo(Ids \X Symbols, MaxAssets) :
        \A i, j \in 1..Len(m) : i # j => m[i][1] # m[j][1] }

IdLists ==
    { l \in SeqsUpTo(Ids, MaxAssets) : \A i, j \in 1..Len(l) : i # j => l[i] # l[j] }

PriceSeqs == SeqsUpTo(Prices, MaxLen)

\* a series of n days with positive prices
Long(n) == [i \in 1..n |-> 1 + (i % 2)]

PipelineSeqs == { << >>, <<2>>, Long(Lookback - 1), Long(Lookback) }

PipelineResponses ==
    FailedResponses \cup MalformedCharts({<<2>>}) \cup ValidCharts(PipelineSeqs)

DirectResponses ==
    FailedResponses \cup MalformedCharts(PriceSeqs) \cup ValidCharts(PriceSeqs)

Init ==
    /\ crypto_dict \in AssetMaps
    /\ pc = "not_started"
    /\ idx = 1
    /\ results = << >>
    /\ trace = << >>
    /\ now = 0
    /\ timestamp = NoTimestamp
    /\ files = << >>
    /\ exc = "None"
    /\ notice = FALSE
    /\ hist = NotCalled
    /\ quotes = NotCalled

\* --------------------------------------------------- get_multiple_cryptos
\* what the process does that its surroundings see, in order: an outbound GET,
\* a sleep of n seconds, and the console message of get_historical_data (the
\* number of days on success, the error on a RequestException)
Get(target) == [e |-> "get", arg |-> target, n |-> 0]
Sleep(seconds) == [e |-> "sleep", arg |-> << >>, n |-> seconds]
Told(crypto_id, out) ==
    [e |-> IF out.df.columns = {} THEN "error" ELSE "ok",
     arg |-> <<crypto_id>>, n |-> Len(out.df.rows)]

\* the GET of get_historical_data: {base_url}/coins/{crypto_id}/market_chart
ChartUrl(crypto_id) == <<"coins", crypto_id, "market_chart">>

\* the GET of get_current_prices: {base_url}/simple/price with ids=...
PriceUrl(crypto_ids) == <<"simple", "price">> \o Join(crypto_ids)

HasKey(d, symbol) == \E i \in 1..Len(d) : d[i].symbol = symbol

\* d[symbol] = df on a dict: a present key keeps its place
SetItem(d, symbol, df) ==
    IF HasKey(d, symbol)
    THEN [i \in 1..Len(d) |-> IF d[i].symbol = symbol
                              THEN [symbol |-> symbol, df |-> df] ELSE d[i]]
    ELSE Append(d, [symbol |-> symbol, df |-> df])

\* df['symbol'] = symbol
Tag(df, symbol) ==
    [columns |-> df.columns \cup {"symbol"},
     rows |-> [i \in 1..Len(df.rows) |-> [df.rows[i] EXCEPT !.symbol = symbol]]]

\* the series stored without the emptiness check
StoreAlways(d, symbol, df) == SetItem(d, symbol, Tag(df, symbol))

\* if not df.empty: df['symbol'] = symbol; results[symbol] = df
Store(d, symbol, df) ==
    IF ~empty(df) THEN SetItem(d, symbol, Tag(df, symbol)) ELSE d

\* the sleep moved into the branch of a non-empty series
PauseOnSuccess(tr, df) == IF empty(df) THEN tr ELSE Append(tr, Sleep(SleepSeconds))

\* time.sleep(1) at the end of every iteration
Pause(tr, df) == Append(tr, Sleep(SleepSeconds))

\* main() calls get_multiple_cryptos(CRYPTOCURRENCIES, days=DEFAULT_DAYS)
Start ==
    /\ pc = "not_started"
    /\ exc = "None"
    /\ pc' = "fetching"
    /\ UNCHANGED <<crypto_dict, idx, results, trace, now, timestamp, files, exc,
                   notice, hist, quotes>>

\* one iteration of the loop over crypto_dict.items()
FetchAsset ==
    /\ pc = "fetching"
    /\ exc = "None"
    /\ idx <= Len(crypto_dict)
    /\ \E resp \in PipelineResponses :
         LET crypto_id == crypto_dict[idx][1]
             symbol == crypto_dict[idx][2]
             out == get_historical_data(resp)
             sent == Append(trace, Get(ChartUrl(crypto_id)))
         IN  IF out.exc # "None"
             THEN /\ exc' = out.exc
                  /\ trace' = sent
                  /\ UNCHANGED <<results, idx, now>>
             ELSE /\ results' = Store(results, symbol, out.df)
                  /\ trace' = Pause(Append(sent, Told(crypto_id, out)), out.df)
                  /\ now' = now + SleepSeconds
                  /\ idx' = idx + 1
                  /\ exc' = exc
    /\ UNCHANGED <<crypto_dict, pc, timestamp, files, notice, hist, quotes>>

\* return results
ReturnResults ==
    /\ pc = "fetching"
    /\ exc = "None"
    /\ idx > Len(crypto_dict)
    /\ pc' = "aggregated"
    /\ UNCHANGED <<crypto_dict, idx, results, trace, now, timestamp, files, exc,
                   notice, hist, quotes>>

\* ------------------------------------------------------------------ main
\* else: the nothing-collected notice
NothingCollected ==
    /\ pc = "aggregated"
    /\ exc = "None"
    /\ results = << >>
    /\ notice' = TRUE
    /\ pc' = "done"
    /\ UNCHANGED <<crypto_dict, idx, results, trace, now, timestamp, files, exc,
                   hist, quotes>>

\* df['price'].iloc[-30] is out of bounds on a series shorter than 30 rows
PreviewFails(d) == \E i \in 1..Len(d) : Len(d[i].df.rows) < Lookback

\* if data: the preview of every collected series
Preview ==
    /\ pc = "aggregated"
    /\ exc = "None"
    /\ results # << >>
    /\ IF PreviewFails(results)
       THEN exc' = "IndexError" /\ pc' = pc
       ELSE exc' = exc /\ pc' = "previewed"
    /\ UNCHANGED <<crypto_dict, idx, results, trace, now, timestamp, files,
                   notice, hist, quotes>>

\* ------------------------------------------------------------- save_data
\* datetime.now().strftime("%Y%m%d_%H%M%S")
strftime(t) == [fmt |-> "%Y%m%d_%H%M%S", sec |-> t]

\* f"{filename_prefix}_{symbol}_{timestamp}.csv"
FileName(prefix, part, ts) == <<prefix, part, ts, "csv">>

\* pd.concat(data_dict.values(), keys=data_dict.keys()): the rows of every
\* series, each under the key of its series
RECURSIVE Concat(_)
Concat(d) ==
    IF d = << >> THEN << >>
    ELSE [i \in 1..Len(d[1].df.rows) |-> [key |-> d[1].symbol, row |-> d[1].df.rows[i]]]
         \o Concat(Tail(d))

\* the timestamp taken again for every file name
StampFresh(ts, clock) == strftime(clock)

\* the timestamp the next file name carries
StampOf(ts, clock) == ts

\* collector.save_data(data): the timestamp is taken first
SaveBegin ==
    /\ pc = "previewed"
    /\ exc = "None"
    /\ timestamp' = strftime(now)
    /\ pc' = "saving"
    /\ UNCHANGED <<crypto_dict, idx, results, trace, now, files, exc, notice,
                   hist, quotes>>

\* one iteration of the loop over data_dict.items(); writing takes time
WriteAssetFile ==
    /\ pc = "saving"
    /\ exc = "None"
    /\ Len(files) < Len(results)
    /\ LET entry == results[Len(files) + 1]
       IN  files' = Append(files,
                [name |-> FileName(filename_prefix, entry.symbol,
                                   StampOf(timestamp, now)),
                 content |-> entry.df.rows])
    /\ \E d \in {0, 1} : now' = now + d
    /\ UNCHANGED <<crypto_dict, pc, idx, results, trace, timestamp, exc, notice,
                   hist, quotes>>

\* the combined file; pd.concat raises ValueError on an empty collection
WriteCombined ==
    /\ pc = "saving"
    /\ exc = "None"
    /\ Len(files) = Len(results)
    /\ IF results = << >>
       THEN exc' = "ValueError" /\ UNCHANGED <<files, pc>>
       ELSE /\ files' = Append(files,
                   [name |-> FileName(filename_prefix, "combined",
                                      StampOf(timestamp, now)),
                    content |-> Concat(results)])
            /\ pc' = "persisted"
            /\ exc' = exc
    /\ UNCHANGED <<crypto_dict, idx, results, trace, now, timestamp, notice,
                   hist, quotes>>

\* the closing message of main()
Finish ==
    /\ pc = "persisted"
    /\ exc = "None"
    /\ pc' = "done"
    /\ UNCHANGED <<crypto_dict, idx, results, trace, now, timestamp, files, exc,
                   notice, hist, quotes>>

Next ==
    \/ Start
    \/ FetchAsset
    \/ ReturnResults
    \/ NothingCollected
    \/ Preview
    \/ SaveBegin
    \/ WriteAssetFile
    \/ WriteCombined
    \/ Finish

Spec == Init /\ [][Next]_vars

\* ------------------------------------------- the collector called directly
InitCollector ==
    /\ Init
    /\ crypto_dict = << >>

\* the calls share no state, so one call from the constructed collector shows
\* all a call can do
CallGetHistoricalData ==
    /\ hist = NotCalled
    /\ quotes = NotCalled
    /\ \E crypto_id \in Ids, resp \in DirectResponses :
         /\ hist' = Call(resp, get_historical_data(resp))
         /\ trace' = Append(trace, Get(ChartUrl(crypto_id)))
    /\ UNCHANGED <<crypto_dict, pc, idx, results, now, timestamp, files, exc,
                   notice, quotes>>

CallGetCurrentPrices ==
    /\ hist = NotCalled
    /\ quotes = NotCalled
    /\ \E crypto_ids \in IdLists :
         \E resp \in SnapshotResponses(crypto_ids) :
            /\ quotes' = Call(resp, get_current_prices(resp))
            /\ trace' = Append(trace, Get(PriceUrl(crypto_ids)))
    /\ UNCHANGED <<crypto_dict, pc, idx, results, now, timestamp, files, exc,
                   notice, hist>>

NextCollector == CallGetHistoricalData \/ CallGetCurrentPrices

SpecCollector == InitCollector /\ [][NextCollector]_vars

\* ================================================================= claims
IsGet(i) == trace[i].e = "get"
GetCount == Cardinality({ i \in 1..Len(trace) : IsGet(i) })
Returned == pc \notin {"not_started", "fetching"}
Ended == exc # "None" \/ pc = "done"

\* the fetch of the i-th entry of crypto_dict ended in the error message
Failed(i) ==
    \E k \in 1..Len(trace) :
        /\ trace[k].arg = <<crypto_dict[i][1]>>
        /\ trace[k].e = "error"

\* the fetch of the i-th entry ended in the success message with at least one day
Collected(i) ==
    \E k \in 1..Len(trace) :
        trace[k].arg = <<crypto_dict[i][1]>> /\ trace[k].e = "ok" /\ trace[k].n > 0

\* every stored series has rows and carries the ticker it is stored under
StoredSeriesTagged ==
    \A i \in 1..Len(results) :
        /\ ~empty(results[i].df)
        /\ "symbol" \in results[i].df.columns
        /\ \A r \in 1..Len(results[i].df.rows) :
              results[i].df.rows[r].symbol = results[i].symbol

\* C1: whatever the fetch outcomes, get_multiple_cryptos raises nothing and,
\* once it has returned, has fetched every entry of the asset map.
C1_BatchNeverAborts ==
    /\ pc = "fetching" => exc = "None"
    /\ Returned => GetCount = Len(crypto_dict)

\* C2 as claimed: after get_multiple_cryptos returns, the result has at most
\* as many keys as the asset map has entries, the ticker of every asset whose
\* fetch failed is absent, and every stored series is non-empty and tagged.
C2_FailedTickerAbsent ==
    Returned =>
        /\ Len(results) <= Len(crypto_dict)
        /\ \A i \in 1..Len(crypto_dict) :
              Failed(i) => ~HasKey(results, crypto_dict[i][2])
        /\ StoredSeriesTagged

\* C2 amended: after get_multiple_cryptos returns, the result has at most as
\* many keys as the asset map has entries; the ticker of an asset whose fetch
\* failed is absent unless another entry of the map carries the same ticker and
\* was collected; every stored series is non-empty and tagged with its key.
C2_FailedTickerAbsentUnlessShared ==
    Returned =>
        /\ Len(results) <= Len(crypto_dict)
        /\ \A i \in 1..Len(crypto_dict) :
              (Failed(i) /\ HasKey(results, crypto_dict[i][2])) =>
                 \E j \in 1..Len(crypto_dict) :
                    j # i /\ crypto_dict[j][2] = crypto_dict[i][2] /\ Collected(j)
        /\ StoredSeriesTagged

\* a batch of two assets with distinct tickers has returned: one fetch failed,
\* the other was collected, and only the collected ticker is in the result
C2_Witness ==
    /\ pc = "aggregated"
    /\ Len(crypto_dict) = 2
    /\ crypto_dict[1][2] # crypto_dict[2][2]
    /\ Failed(1)
    /\ Collected(2)
    /\ Len(results) = 1
    /\ results[1].symbol = crypto_dict[2][2]

\* C3: get_historical_data lets no exception out, whatever the response.
C3_NoParseErrorEscapes == hist.exc \in {"NotCalled", "None"}

\* C4: between two successive fetches of a run there is exactly one sleep, of
\* one second, whether the earlier fetch succeeded or not.
C4_PauseBetweenFetches ==
    \A i, j \in 1..Len(trace) :
        (/\ i < j
         /\ IsGet(i)
         /\ IsGet(j)
         /\ \A k \in (i + 1)..(j - 1) : ~IsGet(k)) =>
            LET sleeps == { k \in (i + 1)..(j - 1) : trace[k].e = "sleep" }
            IN  /\ Cardinality(sleeps) = 1
                /\ \A k \in sleeps : trace[k].n = 1

\* a second fetch was issued after a fetch that failed
C4_Witness ==
    \E i, j \in 1..Len(trace) :
        /\ i < j
        /\ IsGet(i)
        /\ IsGet(j)
        /\ \E k \in (i + 1)..(j - 1) : trace[k].e = "error"

\* C5: the timestamp of a save_data call is taken before any file is written
\* and is in every file name of the call; the i-th file is the file of the
\* i-th (ticker, series) pair, and the combined file comes after all of them.
C5_SharedTimestamp ==
    /\ files # << >> => timestamp # NoTimestamp
    /\ Len(files) <= Len(results) + 1
    /\ \A i \in 1..Len(files) :
          /\ files[i].name[3] = timestamp
          /\ i <= Len(results) =>
                /\ files[i].name = FileName("crypto_data", results[i].symbol, timestamp)
                /\ files[i].content = results[i].df.rows
          /\ i > Len(results) =>
                files[i].name = FileName("crypto_data", "combined", timestamp)
    /\ pc \in {"persisted", "done"} /\ ~notice => Len(files) = Len(results) + 1

\* two per-asset files and the combined file are written, and the clock has
\* moved on since the timestamp was taken
C5_Witness ==
    /\ pc = "persisted"
    /\ Len(files) = 3
    /\ now > timestamp.sec

\* --------------------------------------- claims about the direct calls
\* the response of the direct get_historical_data call is a chart object
\* with the three arrays, equally long
ValidChart(resp) ==
    /\ resp.net = "ok"
    /\ resp.status = 200
    /\ resp.json
    /\ resp.data.t = "object"
    /\ DOMAIN resp.data.v = ChartKeys
    /\ Len(resp.data.v["market_caps"]) = Len(resp.data.v["prices"])
    /\ Len(resp.data.v["total_volumes"]) = Len(resp.data.v["prices"])

RawPrices == hist.resp.data.v["prices"]
Rows == hist.df.rows

LnOfRatio(a, b) ==
    IF a = b THEN Num(0)
    ELSE LET g == GCD(Abs(a), Abs(b))
         IN  [k |-> "ln", n |-> Abs(a) \div g, d |-> Abs(b) \div g]

PriceAt(t) == RawPrices[t][2]

\* C7 as claimed: in every record t after the first, log_returns is
\* ln(price[t]/price[t-1]), and it is undefined (NaN, here also an infinity)
\* whenever price[t-1] is zero or negative.
C7_UndefinedWhenPriorNotPositive ==
    ValidChart(hist.resp) =>
        \A t \in 2..Len(Rows) :
           /\ (PriceAt(t - 1) > 0 /\ PriceAt(t) > 0) =>
                 Rows[t].log_returns = LnOfRatio(PriceAt(t), PriceAt(t - 1))
           /\ PriceAt(t - 1) <= 0 => Rows[t].log_returns.k \in {"nan", "inf"}

\* C7 amended: in every record t after the first, log_returns is
\* ln(price[t]/price[t-1]) whenever the two prices have the same sign, both
\* positive or both negative; it is NaN exactly when they have opposite signs
\* or price[t-1] is zero and price[t] is not positive; it is +inf when
\* price[t-1] is zero and price[t] positive, and -inf when price[t] is zero
\* and price[t-1] is not.
C7_LogOfRatio ==
    ValidChart(hist.resp) =>
        \A t \in 2..Len(Rows) :
           LET cur == PriceAt(t)
               prev == PriceAt(t - 1)
               lr == Rows[t].log_returns
           IN  /\ (cur * prev > 0) => lr = LnOfRatio(cur, prev)
               /\ IsMissing(lr) <=> (cur * prev < 0 \/ (prev = 0 /\ cur <= 0))
               /\ (prev = 0 /\ cur > 0) => lr = PosInf
               /\ (cur = 0 /\ prev # 0) => lr = NegInf

\* records with a negative prior price and a defined log return, and with a
\* zero prior price and an infinite one, were produced
C7_Witness ==
    /\ ValidChart(hist.resp)
    /\ Len(Rows) = 3
    /\ PriceAt(1) < 0
    /\ PriceAt(2) < 0
    /\ PriceAt(3) > 0
    /\ Rows[2].log_returns.k = "ln"
    /\ IsMissing(Rows[3].log_returns)

\* the payload of the direct get_current_prices call maps asset ids to quote
\* objects
QuotePayload(resp) ==
    /\ resp.data.t = "object"
    /\ \A i \in 1..Len(resp.data.v) :
          resp.data.v[i][1] \in Ids /\ resp.data.v[i][2] = "quote"

\* C8: get_current_prices issues one batched request and lets no exception
\* out; on a transport failure or a payload that is no mapping from asset id
\* to quote object it returns an empty table.
C8_MalformedGivesEmptyTable ==
    quotes # NotCalled =>
        /\ GetCount = 1
        /\ quotes.exc = "None"
        /\ (RequestFailed(quotes.resp) \/ ~QuotePayload(quotes.resp)) =>
              empty(quotes.df)

\* C9: a run that ended without any collected asset ended with the
\* nothing-collected notice, without an exception and without a file.
C9_NothingCollectedNotice ==
    (Ended /\ results = << >>) =>
        /\ notice
        /\ exc = "None"
        /\ files = << >>

\* C10: persistence starts only after the asset list is exhausted, and a run
\* that collected at least one asset does not stop with an exception between
\* aggregation and persistence.
C10_CollectedRunPersists ==
    /\ (timestamp # NoTimestamp \/ files # << >>) => idx > Len(crypto_dict)
    /\ pc \in {"persisted", "done"} /\ ~notice => Len(files) > 0
    /\ (pc \in {"aggregated", "previewed"} /\ results # << >>) => exc = "None"

====
